---- MODULE Spec2Model ----
(***************************************************************************)
(* Model of cmd/tesla-http-proxy/main.go: the bootstrap of the HTTP proxy. *)
(* The state is the process state of main: the global httpConfig record,   *)
(* the command line and the environment it reads, the local variables of   *)
(* main (err, skey, useTLS), what was written to standard error and to the *)
(* log, the relay handler, the listener call and the exit status.          *)
(*                                                                         *)
(* Strings that the program only compares or concatenates are TLA+         *)
(* strings.  Strings that the program parses (port, timeout) are sequences *)
(* of one-character strings, so that strconv.Atoi and time.ParseDuration   *)
(* are computed character by character.  A time.Duration is counted in     *)
(* milliseconds and the timeout strings drawn use the units ms, s, m, h.   *)
(***************************************************************************)
EXTENDS Integers, Sequences, FiniteSets, TLC

VARIABLES pc, args, env, httpConfig, err, deferred, skey, useTLS, tlsLoad,
          logLevel, stderr, logged, calls, proxy, listener, exitCode, resolved

vars == <<pc, args, env, httpConfig, err, deferred, skey, useTLS, tlsLoad,
          logLevel, stderr, logged, calls, proxy, listener, exitCode, resolved>>

(***************************************************************************)
(* Program constants.                                                      *)
(***************************************************************************)
cacheSize == 10000
defaultPortHTTPS == 8443
defaultPort == 8080
DefaultTimeout == 10000

EnvTLSCert == "TESLA_HTTP_PROXY_TLS_CERT"
EnvTLSKey == "TESLA_HTTP_PROXY_TLS_KEY"
EnvHost == "TESLA_HTTP_PROXY_HOST"
EnvPort == "TESLA_HTTP_PROXY_PORT"
EnvTimeout == "TESLA_HTTP_PROXY_TIMEOUT"
EnvVerbose == "TESLA_VERBOSE"
EnvDisableTLS == "TESLA_HTTP_PROXY_DISABLE_TLS"

EnvNames == {EnvTLSCert, EnvTLSKey, EnvHost, EnvPort, EnvTimeout, EnvVerbose, EnvDisableTLS}

FieldNames == {"certFilename", "keyFilename", "verbose", "host", "port", "timeout"}

(***************************************************************************)
(* Bounds of the model.                                                    *)
(***************************************************************************)
\* number of distinct P-256 key identities
NumKeys == 2
\* number of flags given on one command line, when only the resolver runs
MaxFlags == 2
\* number of flags given on one command line, when the whole of main runs
MaxMainFlags == 1

(***************************************************************************)
(* The flag defaults registered by init(): the value of httpConfig before  *)
(* flag.Parse.                                                             *)
(***************************************************************************)
FlagDefaults ==
    [keyFilename |-> "", certFilename |-> "", verbose |-> FALSE,
     host |-> "localhost", port |-> defaultPort, timeout |-> DefaultTimeout]

(***************************************************************************)
(* strconv.Atoi on a string of fewer than 19 characters: an optional sign, *)
(* then decimal digits only; a syntax error yields 0.                      *)
(***************************************************************************)
Digits == {"0", "1", "2", "3", "4", "5", "6", "7", "8", "9"}

DigitVal(ch) ==
    CASE ch = "0" -> 0 [] ch = "1" -> 1 [] ch = "2" -> 2 [] ch = "3" -> 3
      [] ch = "4" -> 4 [] ch = "5" -> 5 [] ch = "6" -> 6 [] ch = "7" -> 7
      [] ch = "8" -> 8 [] ch = "9" -> 9

RECURSIVE DecimalValue(_, _)
DecimalValue(s, n) ==
    IF s = <<>> THEN n ELSE DecimalValue(Tail(s), n * 10 + DigitVal(Head(s)))

Atoi(s) ==
    IF s = <<>> THEN [n |-> 0, ok |-> FALSE]
    ELSE LET signed == Head(s) \in {"+", "-"}
             body == IF signed THEN Tail(s) ELSE s
         IN IF body = <<>> \/ \E i \in 1..Len(body) : body[i] \notin Digits
            THEN [n |-> 0, ok |-> FALSE]
            ELSE [n |-> IF Head(s) = "-" THEN 0 - DecimalValue(body, 0)
                        ELSE DecimalValue(body, 0),
                  ok |-> TRUE]

(***************************************************************************)
(* time.ParseDuration: [-+]?([0-9]+[a-z]+)+ or "0"; any error yields 0.    *)
(***************************************************************************)
\* length of the longest prefix of s whose characters are (not) digits
RECURSIVE SpanLen(_, _)
SpanLen(s, digits) ==
    IF s = <<>> \/ ((Head(s) \in Digits) # digits) THEN 0
    ELSE 1 + SpanLen(Tail(s), digits)

UnitMillis(u) ==
    CASE u = <<"m", "s">> -> 1
      [] u = <<"s">> -> 1000
      [] u = <<"m">> -> 60000
      [] u = <<"h">> -> 3600000
      [] OTHER -> 0

\* the loop of ParseDuration over the number-unit groups; d is the sum so far
RECURSIVE DurationGroups(_, _)
DurationGroups(s, d) ==
    IF s = <<>> THEN [n |-> d, ok |-> TRUE]
    ELSE LET nd == SpanLen(s, TRUE)
             rest == SubSeq(s, nd + 1, Len(s))
             nu == SpanLen(rest, FALSE)
             unit == UnitMillis(SubSeq(rest, 1, nu))
         IN IF nd = 0 \/ nu = 0 \/ unit = 0
            THEN [n |-> 0, ok |-> FALSE]
            ELSE DurationGroups(SubSeq(rest, nu + 1, Len(rest)),
                                d + DecimalValue(SubSeq(s, 1, nd), 0) * unit)

ParseDuration(s) ==
    LET signed == s # <<>> /\ Head(s) \in {"+", "-"}
        neg == s # <<>> /\ Head(s) = "-"
        body == IF signed THEN Tail(s) ELSE s
        r == DurationGroups(body, 0)
    IN IF body = <<"0">> THEN [n |-> 0, ok |-> TRUE]
       ELSE IF body = <<>> THEN [n |-> 0, ok |-> FALSE]
       ELSE IF ~r.ok THEN r
       ELSE [n |-> IF neg THEN 0 - r.n ELSE r.n, ok |-> TRUE]

\* the string a character sequence stands for (the %s of fmt.Errorf)
RECURSIVE Chars(_)
Chars(s) == IF s = <<>> THEN "" ELSE Head(s) \o Chars(Tail(s))

(***************************************************************************)
(* os.Getenv and os.LookupEnv.  An environment maps each variable name to  *)
(* [ok, v]: ok is whether the variable is present, v its value (the empty  *)
(* string when absent).                                                    *)
(***************************************************************************)
LookupEnv(e, name) == e[name]

Getenv(e, name) == IF e[name].ok THEN e[name].v ELSE ""

(***************************************************************************)
(* readFromEnvironment: the record after the call and the returned error   *)
(* ("" is nil).                                                            *)
(***************************************************************************)
\* a mutant: the empty value would count as false
VerboseFromEnv_EmptyIsFalse(v) == v # "false" /\ v # "0" /\ v # ""

VerboseFromEnv(v) == v # "false" /\ v # "0"

\* a mutant: the host variable would be read whatever the field holds
HostIsDefault_Always(cfg) == TRUE

\* the sentinel test of the host field
HostIsDefault(cfg) == cfg.host = "localhost"

\* a mutant: the port branch would return nil instead of its error
PortError_Nil(raw) == ""

\* line 192
PortError(raw) == "invalid port: " \o Chars(raw)

readFromEnvironment(cfg, e) ==
    LET c1 == IF cfg.certFilename = ""
              THEN [cfg EXCEPT !.certFilename = Getenv(e, EnvTLSCert)] ELSE cfg
        c2 == IF c1.keyFilename = ""
              THEN [c1 EXCEPT !.keyFilename = Getenv(e, EnvTLSKey)] ELSE c1
        c3 == IF HostIsDefault(c2) /\ LookupEnv(e, EnvHost).ok
              THEN [c2 EXCEPT !.host = LookupEnv(e, EnvHost).v] ELSE c2
        c4 == IF ~c3.verbose /\ LookupEnv(e, EnvVerbose).ok
              THEN [c3 EXCEPT !.verbose = VerboseFromEnv(LookupEnv(e, EnvVerbose).v)]
              ELSE c3
        port == LookupEnv(e, EnvPort)
        readPort == c4.port = defaultPort /\ port.ok
        c5 == IF readPort THEN [c4 EXCEPT !.port = Atoi(port.v).n] ELSE c4
        timeoutEnv == LookupEnv(e, EnvTimeout)
        readTimeout == c5.timeout = DefaultTimeout /\ timeoutEnv.ok
        c6 == IF readTimeout
              THEN [c5 EXCEPT !.timeout = ParseDuration(timeoutEnv.v).n] ELSE c5
    IN IF readPort /\ ~Atoi(port.v).ok
       THEN [cfg |-> c5, err |-> PortError(port.v)]
       ELSE IF readTimeout /\ ~ParseDuration(timeoutEnv.v).ok
       THEN [cfg |-> c6, err |-> "invalid timeout: " \o Chars(timeoutEnv.v)]
       ELSE [cfg |-> c6, err |-> ""]

(***************************************************************************)
(* Inputs: command lines and environments.                                 *)
(***************************************************************************)
Absent == [ok |-> FALSE, v |-> ""]
AbsentSeq == [ok |-> FALSE, v |-> <<>>]
Present(x) == [ok |-> TRUE, v |-> x]

FlagValues ==
    [keyFilename |-> {"", "flag.key"}, certFilename |-> {"", "flag.crt"},
     verbose |-> {FALSE, TRUE}, host |-> {"localhost", "10.0.0.1"},
     port |-> {defaultPort, 443}, timeout |-> {DefaultTimeout, 2000}]

\* a flag not given leaves the registered default in place
FlagChoices(fld) ==
    {[set |-> FALSE, v |-> FlagDefaults[fld]]}
        \cup {[set |-> TRUE, v |-> x] : x \in FlagValues[fld]}

AllArgs ==
    {[bad |-> FALSE, keyFilename |-> k, certFilename |-> c, verbose |-> vb,
      host |-> h, port |-> p, timeout |-> t] :
        k \in FlagChoices("keyFilename"), c \in FlagChoices("certFilename"),
        vb \in FlagChoices("verbose"), h \in FlagChoices("host"),
        p \in FlagChoices("port"), t \in FlagChoices("timeout")}

NumFlags(a) == Cardinality({fld \in FieldNames : a[fld].set})

NoArgs == CHOOSE a \in AllArgs : NumFlags(a) = 0

\* a command line flag.Parse rejects
BadArgs == [NoArgs EXCEPT !.bad = TRUE]

ResolverArgs == {a \in AllArgs : NumFlags(a) <= MaxFlags}

MainArgs == {a \in AllArgs : NumFlags(a) <= MaxMainFlags} \cup {BadArgs}

Environments(certs, keys, hosts, verboses, ports, timeouts, disables) ==
    {(EnvTLSCert :> c) @@ (EnvTLSKey :> k) @@ (EnvHost :> h) @@ (EnvVerbose :> vb)
        @@ (EnvPort :> p) @@ (EnvTimeout :> t) @@ (EnvDisableTLS :> d) :
        c \in certs, k \in keys, h \in hosts, vb \in verboses, p \in ports,
        t \in timeouts, d \in disables}

ResolverEnvs ==
    Environments({Absent, Present("env.crt")}, {Absent, Present("env.key")},
                 {Absent, Present("0.0.0.0")},
                 {Absent, Present("false"), Present("0"), Present(""), Present("yes")},
                 {AbsentSeq, Present(<<"9", "0", "9", "0">>), Present(<<"a", "b", "c">>),
                  Present(<<"8", "0", "8", "0">>), Present(<<>>)},
                 {AbsentSeq, Present(<<"5", "s">>), Present(<<"x", "y", "z">>),
                  Present(<<"1", "0", "s">>)},
                 {Absent})

MainEnvs ==
    Environments({Absent, Present("env.crt")}, {Absent, Present("env.key")},
                 {Absent, Present("0.0.0.0")},
                 {Absent, Present("1")},
                 {AbsentSeq, Present(<<"9", "0", "9", "0">>), Present(<<"a", "b", "c">>)},
                 {AbsentSeq, Present(<<"1", "m", "3", "0", "s">>), Present(<<"5">>)},
                 {Absent, Present("true"), Present("1"), Present(""), Present("TRUE")})

(***************************************************************************)
(* The collaborators of main.                                              *)
(***************************************************************************)
Keys == 1..NumKeys

\* the public bytes of key k: an uncompressed curve point
PublicBytes(k) == <<4, k>>

NoLoad == [called |-> FALSE, ok |-> FALSE, key |-> 0]

\* protocol.LoadPublicKey: the outcomes for a file name; no file is named ""
LoadPublicKey(filename) ==
    {[called |-> TRUE, ok |-> FALSE, key |-> 0]}
        \cup (IF filename = "" THEN {}
              ELSE {[called |-> TRUE, ok |-> TRUE, key |-> k] : k \in Keys})

NoProxy == [created |-> FALSE, skey |-> 0, cacheSize |-> 0, Timeout |-> 0]

NoListener == [fn |-> "", addr |-> "", certFile |-> "", keyFile |-> "", handler |-> NoProxy]

\* the errors a listener returns: it never returns nil
ListenErrors == {"listen tcp: address already in use", "accept: use of closed network connection"}

PrivateKeyError == "failed to load private key"

nonLocalhostWarning == "Do not listen on a network interface without adding client authentication."

\* fmt.Sprintf("%s:%d", host, port)
Addr(cfg) == cfg.host \o ":" \o ToString(cfg.port)

\* os.Exit(code): deferred functions do not run
Exit(code) == pc' = "Exited" /\ exitCode' = code

(***************************************************************************)
(* Initial states: the process starts with the flag defaults registered.   *)
(***************************************************************************)
InitProcess ==
    /\ httpConfig = FlagDefaults
    /\ err = ""
    /\ skey = 0
    /\ useTLS = TRUE
    /\ tlsLoad = NoLoad
    /\ logLevel = "info"
    /\ stderr = <<>>
    /\ logged = <<>>
    /\ proxy = NoProxy
    /\ listener = NoListener
    /\ exitCode = -1
    /\ resolved = FlagDefaults

Init ==
    /\ InitProcess
    /\ pc = "NewConfig"
    /\ deferred = FALSE
    /\ calls = <<>>
    /\ args \in MainArgs
    /\ env \in MainEnvs

\* main has loaded the credential configuration and is about to parse flags
InitResolver ==
    /\ InitProcess
    /\ pc = "Parse"
    /\ deferred = TRUE
    /\ calls = <<"cli.NewConfig">>
    /\ args \in ResolverArgs
    /\ env \in ResolverEnvs

(***************************************************************************)
(* The steps of main.                                                      *)
(***************************************************************************)
\* lines 86-98: load the credential configuration, register the deferred exit
NewConfig ==
    /\ pc = "NewConfig"
    /\ calls' = Append(calls, "cli.NewConfig")
    /\ \E ok \in BOOLEAN :
        IF ok
        THEN /\ deferred' = TRUE
             /\ pc' = "Parse"
             /\ UNCHANGED <<stderr, exitCode>>
        ELSE /\ stderr' = Append(stderr, "Failed to load credential configuration")
             /\ Exit(1)
             /\ UNCHANGED deferred
    /\ UNCHANGED <<args, env, httpConfig, err, skey, useTLS, tlsLoad, logLevel,
                   logged, proxy, listener, resolved>>

\* flag.Parse: every flag given is stored in its field of httpConfig
ParseFlags(cfg, a) ==
    [keyFilename |-> IF a.keyFilename.set THEN a.keyFilename.v ELSE cfg.keyFilename,
     certFilename |-> IF a.certFilename.set THEN a.certFilename.v ELSE cfg.certFilename,
     verbose |-> IF a.verbose.set THEN a.verbose.v ELSE cfg.verbose,
     host |-> IF a.host.set THEN a.host.v ELSE cfg.host,
     port |-> IF a.port.set THEN a.port.v ELSE cfg.port,
     timeout |-> IF a.timeout.set THEN a.timeout.v ELSE cfg.timeout]

\* lines 100-102: a command line that does not parse ends the process with status 2
FlagParse ==
    /\ pc = "Parse"
    /\ calls' = Append(calls, "flag.Parse")
    /\ IF args.bad
       THEN /\ stderr' = Append(stderr, "Usage")
            /\ Exit(2)
            /\ UNCHANGED httpConfig
       ELSE /\ httpConfig' = ParseFlags(httpConfig, args)
            /\ pc' = "ReadEnv"
            /\ UNCHANGED <<stderr, exitCode>>
    /\ UNCHANGED <<args, env, err, deferred, skey, useTLS, tlsLoad, logLevel,
                   logged, proxy, listener, resolved>>

\* a mutant: the error of readFromEnvironment would be reported but not fatal
ReadEnv_ErrorNotFatal ==
    /\ pc = "ReadEnv"
    /\ calls' = Append(calls, "readFromEnvironment")
    /\ LET r == readFromEnvironment(httpConfig, env)
       IN /\ httpConfig' = r.cfg
          /\ resolved' = r.cfg
          /\ err' = r.err
          /\ stderr' = IF r.err # ""
                       THEN Append(stderr, "Error reading environment: " \o r.err)
                       ELSE stderr
          /\ pc' = "PostResolve"
    /\ UNCHANGED <<args, env, deferred, skey, useTLS, tlsLoad, logLevel, logged,
                   proxy, listener, exitCode>>

\* a mutant: a failed resolution would leave the record as it was
ReadEnv_Atomic ==
    /\ pc = "ReadEnv"
    /\ calls' = Append(calls, "readFromEnvironment")
    /\ LET r == readFromEnvironment(httpConfig, env)
       IN /\ httpConfig' = IF r.err # "" THEN httpConfig ELSE r.cfg
          /\ resolved' = httpConfig'
          /\ err' = r.err
          /\ IF r.err # ""
             THEN /\ stderr' = Append(stderr, "Error reading environment: " \o r.err)
                  /\ Exit(1)
             ELSE /\ pc' = "PostResolve"
                  /\ UNCHANGED <<stderr, exitCode>>
    /\ UNCHANGED <<args, env, deferred, skey, useTLS, tlsLoad, logLevel, logged,
                   proxy, listener>>

\* lines 103-107
ReadEnv ==
    /\ pc = "ReadEnv"
    /\ calls' = Append(calls, "readFromEnvironment")
    /\ LET r == readFromEnvironment(httpConfig, env)
       IN /\ httpConfig' = r.cfg
          /\ resolved' = r.cfg
          /\ err' = r.err
          /\ IF r.err # ""
             THEN /\ stderr' = Append(stderr, "Error reading environment: " \o r.err)
                  /\ Exit(1)
             ELSE /\ pc' = "PostResolve"
                  /\ UNCHANGED <<stderr, exitCode>>
    /\ UNCHANGED <<args, env, deferred, skey, useTLS, tlsLoad, logLevel, logged,
                   proxy, listener>>

\* a mutant: the host would be compared with the loopback address
PostResolve_LoopbackIP ==
    /\ pc = "PostResolve"
    /\ logLevel' = IF httpConfig.verbose THEN "debug" ELSE logLevel
    /\ stderr' = IF httpConfig.host # "127.0.0.1"
                 THEN Append(stderr, nonLocalhostWarning) ELSE stderr
    /\ pc' = "PrivateKey"
    /\ UNCHANGED <<args, env, httpConfig, err, deferred, skey, useTLS, tlsLoad,
                   logged, calls, proxy, listener, exitCode, resolved>>

\* lines 108-116
PostResolve ==
    /\ pc = "PostResolve"
    /\ logLevel' = IF httpConfig.verbose THEN "debug" ELSE logLevel
    /\ stderr' = IF httpConfig.host # "localhost"
                 THEN Append(stderr, nonLocalhostWarning) ELSE stderr
    /\ pc' = "PrivateKey"
    /\ UNCHANGED <<args, env, httpConfig, err, deferred, skey, useTLS, tlsLoad,
                   logged, calls, proxy, listener, exitCode, resolved>>

\* a mutant: the error of config.PrivateKey would go to a new local err
PrivateKey_ErrShadowed ==
    /\ pc = "PrivateKey"
    /\ calls' = Append(calls, "config.PrivateKey")
    /\ \/ \E k \in Keys :
            /\ skey' = k
            /\ pc' = "DisableTLS"
       \/ /\ pc' = "Return"
          /\ UNCHANGED skey
    /\ UNCHANGED <<args, env, httpConfig, err, deferred, useTLS, tlsLoad, logLevel,
                   stderr, logged, proxy, listener, exitCode, resolved>>

\* lines 118-122
PrivateKey ==
    /\ pc = "PrivateKey"
    /\ calls' = Append(calls, "config.PrivateKey")
    /\ \/ \E k \in Keys :
            /\ skey' = k
            /\ err' = ""
            /\ pc' = "DisableTLS"
       \/ /\ err' = PrivateKeyError
          /\ pc' = "Return"
          /\ UNCHANGED skey
    /\ UNCHANGED <<args, env, httpConfig, deferred, useTLS, tlsLoad, logLevel,
                   stderr, logged, proxy, listener, exitCode, resolved>>

\* a mutant: the variable would not be consulted
DisableTLS_Ignored ==
    /\ pc = "DisableTLS"
    /\ useTLS' = TRUE
    /\ pc' = "SafetyGate"
    /\ UNCHANGED <<args, env, httpConfig, err, deferred, skey, tlsLoad, logLevel,
                   stderr, logged, calls, proxy, listener, exitCode, resolved>>

\* a mutant: the variable would follow the convention of TESLA_VERBOSE
DisableTLS_BoolConvention ==
    /\ pc = "DisableTLS"
    /\ LET disableTLS == LookupEnv(env, EnvDisableTLS)
       IN useTLS' = IF disableTLS.ok THEN ~VerboseFromEnv(disableTLS.v) ELSE TRUE
    /\ pc' = "SafetyGate"
    /\ UNCHANGED <<args, env, httpConfig, err, deferred, skey, tlsLoad, logLevel,
                   stderr, logged, calls, proxy, listener, exitCode, resolved>>

\* lines 124-128
DisableTLS ==
    /\ pc = "DisableTLS"
    /\ LET disableTLS == LookupEnv(env, EnvDisableTLS)
       IN useTLS' = IF disableTLS.ok THEN disableTLS.v # "true" ELSE TRUE
    /\ pc' = "SafetyGate"
    /\ UNCHANGED <<args, env, httpConfig, err, deferred, skey, tlsLoad, logLevel,
                   stderr, logged, calls, proxy, listener, exitCode, resolved>>

\* a mutant: the loaded public key would be compared with the private scalar
SameKey_PrivateBytes(load, k) == PublicBytes(load.key) = <<k>>

\* bytes.Equal(tlsPublicKey.Bytes(), skey.PublicBytes())
SameKey(load, k) == PublicBytes(load.key) = PublicBytes(k)

\* a mutant: a key file that does not load would stop the bootstrap
GateVerdict_LoadErrorFatal(load, k) ==
    IF load.ok /\ ~SameKey(load, k) THEN "distinct" ELSE "reuse"

\* the branches of lines 132-143
GateVerdict(load, k) ==
    IF load.ok
    THEN IF SameKey(load, k) THEN "reuse" ELSE "distinct"
    ELSE "unloadable"

\* lines 130-144: the err of the key load is local to the if statement
SafetyGate ==
    /\ pc = "SafetyGate"
    /\ IF useTLS
       THEN \E load \in LoadPublicKey(httpConfig.keyFilename) :
              /\ tlsLoad' = load
              /\ calls' = Append(calls, "protocol.LoadPublicKey")
              /\ IF GateVerdict(load, skey) # "unloadable"
                 THEN IF GateVerdict(load, skey) = "reuse"
                      THEN /\ stderr' = Append(stderr,
                                "It is unsafe to use the same private key for TLS and command authentication.")
                           /\ pc' = "Return"
                           /\ UNCHANGED logged
                      ELSE /\ logged' = Append(logged, [level |-> "debug",
                                msg |-> "Verified that TLS key is not the same as the command-authentication key."])
                           /\ pc' = "ProxyNew"
                           /\ UNCHANGED stderr
                 ELSE /\ logged' = Append(logged, [level |-> "debug",
                            msg |-> "Verified that TLS key is not a recycled command-authentication key, because it is not NIST P256."])
                      /\ pc' = "ProxyNew"
                      /\ UNCHANGED stderr
       ELSE /\ pc' = "ProxyNew"
            /\ UNCHANGED <<tlsLoad, calls, stderr, logged>>
    /\ UNCHANGED <<args, env, httpConfig, err, deferred, skey, useTLS, logLevel,
                   proxy, listener, exitCode, resolved>>

\* lines 146-154
ProxyNew ==
    /\ pc = "ProxyNew"
    /\ calls' = Append(calls, "proxy.New")
    /\ \E ok \in BOOLEAN :
        IF ok
        THEN /\ proxy' = [created |-> TRUE, skey |-> skey, cacheSize |-> cacheSize,
                          Timeout |-> httpConfig.timeout]
             /\ err' = ""
             /\ logged' = logged \o <<[level |-> "debug", msg |-> "Creating proxy"],
                                      [level |-> "info", msg |-> "Listening on " \o Addr(httpConfig)]>>
             /\ pc' = "Listen"
        ELSE /\ err' = "proxy.New failed"
             /\ logged' = logged \o <<[level |-> "debug", msg |-> "Creating proxy"],
                                      [level |-> "error", msg |-> "Error initializing proxy service"]>>
             /\ pc' = "Return"
             /\ UNCHANGED proxy
    /\ UNCHANGED <<args, env, httpConfig, deferred, skey, useTLS, tlsLoad, logLevel,
                   stderr, listener, exitCode, resolved>>

\* a mutant: the key path would not be tested
UseEncrypted_CertOnly(tls, cfg) == tls /\ cfg.certFilename # ""

\* line 156
UseEncrypted(tls, cfg) == tls /\ cfg.certFilename # "" /\ cfg.keyFilename # ""

\* a mutant: the encrypted branch would move the default port to the HTTPS port
Listen_HTTPSPort ==
    /\ pc = "Listen"
    /\ IF UseEncrypted(useTLS, httpConfig)
       THEN /\ httpConfig' = IF httpConfig.port = defaultPort
                             THEN [httpConfig EXCEPT !.port = defaultPortHTTPS]
                             ELSE httpConfig
            /\ listener' = [fn |-> "http.ListenAndServeTLS", addr |-> Addr(httpConfig'),
                            certFile |-> httpConfig.certFilename,
                            keyFile |-> httpConfig.keyFilename, handler |-> proxy]
            /\ calls' = Append(calls, "http.ListenAndServeTLS")
       ELSE /\ listener' = [fn |-> "http.ListenAndServe", addr |-> Addr(httpConfig),
                            certFile |-> "", keyFile |-> "", handler |-> proxy]
            /\ calls' = Append(calls, "http.ListenAndServe")
            /\ UNCHANGED httpConfig
    /\ pc' = "Serving"
    /\ UNCHANGED <<args, env, err, deferred, skey, useTLS, tlsLoad,
                   logLevel, stderr, logged, proxy, exitCode, resolved>>

\* lines 156-160: the call of the listener, which blocks while it serves
Listen ==
    /\ pc = "Listen"
    /\ IF UseEncrypted(useTLS, httpConfig)
       THEN /\ listener' = [fn |-> "http.ListenAndServeTLS", addr |-> Addr(httpConfig),
                            certFile |-> httpConfig.certFilename,
                            keyFile |-> httpConfig.keyFilename, handler |-> proxy]
            /\ calls' = Append(calls, "http.ListenAndServeTLS")
       ELSE /\ listener' = [fn |-> "http.ListenAndServe", addr |-> Addr(httpConfig),
                            certFile |-> "", keyFile |-> "", handler |-> proxy]
            /\ calls' = Append(calls, "http.ListenAndServe")
    /\ pc' = "Serving"
    /\ UNCHANGED <<args, env, httpConfig, err, deferred, skey, useTLS, tlsLoad,
                   logLevel, stderr, logged, proxy, exitCode, resolved>>

\* a mutant: a failed listener would be started again
ListenerReturns_Retry ==
    /\ pc = "Serving"
    /\ \E e \in ListenErrors :
        logged' = Append(logged, [level |-> "error", msg |-> "Server stopped: " \o e])
    /\ pc' = IF Len(logged) > 4 THEN "Return" ELSE "Listen"
    /\ UNCHANGED <<args, env, httpConfig, err, deferred, skey, useTLS, tlsLoad,
                   logLevel, stderr, calls, proxy, listener, exitCode, resolved>>

\* lines 157, 159: the listener returns its error, which is logged; main ends
ListenerReturns ==
    /\ pc = "Serving"
    /\ \E e \in ListenErrors :
        logged' = Append(logged, [level |-> "error", msg |-> "Server stopped: " \o e])
    /\ pc' = "Return"
    /\ UNCHANGED <<args, env, httpConfig, err, deferred, skey, useTLS, tlsLoad,
                   logLevel, stderr, calls, proxy, listener, exitCode, resolved>>

\* lines 93-98, 161: main returns; the deferred function exits with 1 when
\* err is not nil, otherwise the process ends with status 0
Return ==
    /\ pc = "Return"
    /\ IF deferred /\ err # ""
       THEN /\ stderr' = Append(stderr, "Error: " \o err)
            /\ Exit(1)
       ELSE /\ Exit(0)
            /\ UNCHANGED stderr
    /\ UNCHANGED <<args, env, httpConfig, err, deferred, skey, useTLS, tlsLoad,
                   logLevel, logged, calls, proxy, listener, resolved>>

Next ==
    \/ NewConfig
    \/ FlagParse
    \/ ReadEnv
    \/ PostResolve
    \/ PrivateKey
    \/ DisableTLS
    \/ SafetyGate
    \/ ProxyNew
    \/ Listen
    \/ ListenerReturns
    \/ Return

Spec == Init /\ [][Next]_vars

\* the resolver alone, over the wider inputs
NextResolver ==
    \/ FlagParse
    \/ ReadEnv

SpecResolver == InitResolver /\ [][NextResolver]_vars

\* readFromEnvironment called a second time, on the record and the
\* environment the first call left; the first call's record stays in resolved
ReadEnvAgain ==
    /\ pc \in {"PostResolve", "Exited"}
    /\ calls = <<"cli.NewConfig", "flag.Parse", "readFromEnvironment">>
    /\ calls' = Append(calls, "readFromEnvironment")
    /\ LET r == readFromEnvironment(httpConfig, env)
       IN /\ httpConfig' = r.cfg
          /\ err' = r.err
    /\ pc' = "Rerun"
    /\ UNCHANGED <<args, env, deferred, skey, useTLS, tlsLoad, logLevel, stderr,
                   logged, proxy, listener, exitCode, resolved>>

NextRerun ==
    \/ FlagParse
    \/ ReadEnv
    \/ ReadEnvAgain

\* the resolver run twice in a row
SpecRerun == InitResolver /\ [][NextRerun]_vars

TypeOK ==
    /\ pc \in {"NewConfig", "Parse", "ReadEnv", "PostResolve", "PrivateKey", "DisableTLS",
               "SafetyGate", "ProxyNew", "Listen", "Serving", "Return", "Exited"}
    /\ exitCode \in {-1, 0, 1, 2}
    /\ (pc = "Exited") = (exitCode # -1)
    /\ skey \in 0..NumKeys
    /\ useTLS \in BOOLEAN
    /\ deferred \in BOOLEAN

(***************************************************************************)
(* Vocabulary of the properties.                                           *)
(***************************************************************************)
Called(name) == \E i \in 1..Len(calls) : calls[i] = name

ListenerCalls ==
    Cardinality({i \in 1..Len(calls) :
                    calls[i] \in {"http.ListenAndServe", "http.ListenAndServeTLS"}})

UnsafeMessage == "It is unsafe to use the same private key for TLS and command authentication."

Printed(msg) == \E i \in 1..Len(stderr) : stderr[i] = msg

\* encrypted transport is requested and the key loaded from the TLS key file
\* has the public bytes of the command-authentication key
CredentialReuse ==
    /\ useTLS
    /\ tlsLoad.called
    /\ tlsLoad.ok
    /\ PublicBytes(tlsLoad.key) = PublicBytes(skey)

\* encrypted transport is requested and the TLS key file did not load
TLSKeyLoadFailed == useTLS /\ tlsLoad.called /\ ~tlsLoad.ok

NoServer ==
    /\ ~Called("proxy.New")
    /\ ~Called("http.ListenAndServe")
    /\ ~Called("http.ListenAndServeTLS")
    /\ proxy = NoProxy
    /\ listener = NoListener

\* the record when readFromEnvironment starts
AfterFlags == ParseFlags(FlagDefaults, args)

EnvOf(fld) ==
    CASE fld = "certFilename" -> EnvTLSCert
      [] fld = "keyFilename" -> EnvTLSKey
      [] fld = "verbose" -> EnvVerbose
      [] fld = "host" -> EnvHost
      [] fld = "port" -> EnvPort
      [] fld = "timeout" -> EnvTimeout

EnvIsSet(fld) == env[EnvOf(fld)].ok

\* whether the variable of the field holds a value of the field's type
EnvIsValid(fld) ==
    CASE fld = "port" -> Atoi(env[EnvPort].v).ok
      [] fld = "timeout" -> ParseDuration(env[EnvTimeout].v).ok
      [] OTHER -> TRUE

\* the value of the field's type that the variable holds
EnvValue(fld) ==
    CASE fld = "port" -> Atoi(env[EnvPort].v).n
      [] fld = "timeout" -> ParseDuration(env[EnvTimeout].v).n
      [] fld = "verbose" -> env[EnvVerbose].v \notin {"false", "0"}
      [] OTHER -> env[EnvOf(fld)].v

\* the error readFromEnvironment returns for the variable of the field
EnvError(fld) ==
    CASE fld = "port" -> "invalid port: " \o Chars(env[EnvPort].v)
      [] fld = "timeout" -> "invalid timeout: " \o Chars(env[EnvTimeout].v)
      [] OTHER -> "no such error"

\* the field is at its default when readFromEnvironment starts and its
\* variable is present with a value that does not parse
BadEnv(fld) == AfterFlags[fld] = FlagDefaults[fld] /\ EnvIsSet(fld) /\ ~EnvIsValid(fld)

Resolved == Called("readFromEnvironment")

(***************************************************************************)
(* C1.  When encrypted transport is requested and the public key loaded    *)
(* from the TLS key file is byte-equal to the command-authentication key's *)
(* public bytes, startup is aborted: proxy.New, http.ListenAndServe and    *)
(* http.ListenAndServeTLS are never called, whatever the other fields.     *)
(***************************************************************************)
C1_ReuseNeverServes ==
    CredentialReuse => pc \in {"Return", "Exited"} /\ NoServer

C1_Witness ==
    /\ CredentialReuse
    /\ pc = "Exited"
    /\ httpConfig.certFilename # ""
    /\ httpConfig.host # "localhost"

(***************************************************************************)
(* C2.  When the Safety Gate detects credential reuse, the process ends    *)
(* with a non-zero exit status after printing the diagnostic to standard   *)
(* error.  (main returns with err = nil, so the status is 0.)              *)
(***************************************************************************)
C2_ReuseExitsNonZero ==
    (CredentialReuse /\ pc = "Exited") => Printed(UnsafeMessage) /\ exitCode # 0

(***************************************************************************)
(* C3.  When the listener returns an error, the process logs it and ends   *)
(* with a non-zero exit status, without starting another listener.  (main  *)
(* returns with err = nil, so the status is 0.)                            *)
(***************************************************************************)
C3_ListenerFailureExitsNonZero ==
    (listener # NoListener /\ pc = "Exited") =>
        /\ \E i \in 1..Len(logged) : logged[i].level = "error"
        /\ ListenerCalls = 1
        /\ exitCode # 0

(***************************************************************************)
(* C4.  Precedence flag > environment > default: after a successful        *)
(* readFromEnvironment every field holds the value of its flag when the    *)
(* flag was given, whatever the environment holds; otherwise the value of  *)
(* its environment variable when set; otherwise the built-in default.      *)
(* (A flag that gives the default value is overwritten by the variable.)   *)
(***************************************************************************)
C4_FlagEnvDefault ==
    (Resolved /\ err = "") =>
        \A fld \in FieldNames :
            httpConfig[fld] = IF args[fld].set THEN args[fld].v
                              ELSE IF EnvIsSet(fld) THEN EnvValue(fld)
                              ELSE FlagDefaults[fld]

(***************************************************************************)
(* C5.  Precedence on sentinels, as stated: a field at its default when    *)
(* readFromEnvironment starts, whose variable is set to a valid value,     *)
(* ends equal to that value; a field not at its default is left unchanged  *)
(* and its variable causes no error.                                       *)
(***************************************************************************)
SentinelLaw(fld) ==
    /\ (AfterFlags[fld] = FlagDefaults[fld] /\ EnvIsSet(fld) /\ EnvIsValid(fld))
            => httpConfig[fld] = EnvValue(fld)
    /\ AfterFlags[fld] # FlagDefaults[fld]
            => httpConfig[fld] = AfterFlags[fld] /\ err # EnvError(fld)

C5_SentinelLawAsStated ==
    Resolved => \A fld \in FieldNames : SentinelLaw(fld)

(***************************************************************************)
(* C5 amended.  The same law, except that the timeout field takes its      *)
(* variable's value only when readFromEnvironment did not already return   *)
(* the port error: it returns at the first error and then never looks at   *)
(* the timeout variable.                                                   *)
(***************************************************************************)
C5_SentinelLaw ==
    Resolved =>
        /\ \A fld \in FieldNames \ {"timeout"} : SentinelLaw(fld)
        /\ BadEnv("port") => httpConfig.timeout = AfterFlags.timeout
        /\ ~BadEnv("port") => SentinelLaw("timeout")

C5_Witness ==
    /\ Resolved
    /\ AfterFlags.host # "localhost" /\ EnvIsSet("host")
    /\ AfterFlags.timeout = DefaultTimeout /\ httpConfig.timeout = 5000
    /\ AfterFlags.port = defaultPort /\ httpConfig.port = 9090

(***************************************************************************)
(* C6.  If the port (or timeout) field is at its default and its variable  *)
(* does not parse, readFromEnvironment returns an error carrying the raw   *)
(* value and main stops there: config.PrivateKey is not called, the Safety *)
(* Gate does not run, no handler and no listener is created, and the exit  *)
(* status is non-zero.                                                     *)
(***************************************************************************)
C6_BadEnvAborts ==
    (Resolved /\ (BadEnv("port") \/ BadEnv("timeout"))) =>
        /\ err = IF BadEnv("port") THEN EnvError("port") ELSE EnvError("timeout")
        /\ Printed("Error reading environment: " \o err)
        /\ pc = "Exited"
        /\ exitCode # 0
        /\ ~Called("config.PrivateKey")
        /\ skey = 0
        /\ ~tlsLoad.called
        /\ NoServer

C6_Witness ==
    /\ pc = "Exited"
    /\ ~BadEnv("port")
    /\ EnvIsSet("port")
    /\ err = "invalid timeout: 5"

(***************************************************************************)
(* C7.  With the verbosity field at its default (false): the values        *)
(* "false" and "0" of the variable resolve to false, every other value,    *)
(* the empty string included, resolves to true, and an absent variable     *)
(* leaves the field unchanged.                                             *)
(***************************************************************************)
C7_VerboseParsing ==
    (Resolved /\ ~AfterFlags.verbose) =>
        httpConfig.verbose =
            IF ~env[EnvVerbose].ok THEN AfterFlags.verbose
            ELSE IF env[EnvVerbose].v = "false" \/ env[EnvVerbose].v = "0" THEN FALSE
            ELSE TRUE

C7_Witness ==
    /\ Resolved
    /\ ~AfterFlags.verbose
    /\ env[EnvVerbose] = Present("")
    /\ httpConfig.verbose

C9_LoadFailureProceeds ==
    TLSKeyLoadFailed =>
        /\ pc \in {"ProxyNew", "Listen", "Serving", "Return", "Exited"}
        /\ pc # "ProxyNew" => Called("proxy.New")
        /\ ~Printed(UnsafeMessage)
        /\ (proxy.created /\ pc # "Listen") => ListenerCalls = 1

C9_Witness ==
    /\ TLSKeyLoadFailed
    /\ httpConfig.keyFilename # ""
    /\ pc = "Serving"

(***************************************************************************)
(* C10.  If the command-authentication key cannot be obtained              *)
(* (cli.NewConfig or config.PrivateKey fails), main stops before any       *)
(* network activity: the Safety Gate does not run, no handler and no       *)
(* listener is created, and the exit status is non-zero.                   *)
(***************************************************************************)
NewConfigFailed == Called("cli.NewConfig") /\ ~deferred

PrivateKeyFailed == Called("config.PrivateKey") /\ skey = 0

C10_NoKeyAborts ==
    (NewConfigFailed \/ PrivateKeyFailed) =>
        /\ pc \in {"Return", "Exited"}
        /\ pc = "Exited" => exitCode # 0
        /\ ~Called("protocol.LoadPublicKey")
        /\ ~tlsLoad.called
        /\ NoServer

C10_Witness ==
    /\ PrivateKeyFailed
    /\ pc = "Exited"
    /\ httpConfig.keyFilename # ""

(***************************************************************************)
(* C11.  Idempotence as stated: for every record and every environment,    *)
(* the record and the result after two consecutive calls of                *)
(* readFromEnvironment equal the record and the result after one call.     *)
(***************************************************************************)
\* the result of the first call: ReadEnv prints it when it is an error
FirstResult(e) ==
    IF e = "" THEN stderr = <<>> ELSE stderr = <<"Error reading environment: " \o e>>

C11_IdempotentAsStated ==
    pc = "Rerun" => httpConfig = resolved /\ FirstResult(err)

(***************************************************************************)
(* C11 amended.  When the first call of readFromEnvironment returns        *)
(* without error, a second call with the environment unchanged leaves the  *)
(* record as it is and returns without error too.                          *)
(***************************************************************************)
C11_IdempotentAfterSuccess ==
    (pc = "Rerun" /\ FirstResult("")) => httpConfig = resolved /\ err = ""

C11_Witness ==
    /\ pc = "Rerun"
    /\ FirstResult("")
    /\ AfterFlags = FlagDefaults
    /\ resolved.port = 9090
    /\ resolved.timeout = 5000
    /\ resolved.verbose
    /\ resolved.host = "0.0.0.0"

(***************************************************************************)
(* C12.  With an empty environment and no flags, the resolved record       *)
(* equals the built-in defaults in every field (empty certificate and key  *)
(* paths, verbosity false, host localhost, port 8080, default timeout),    *)
(* and the bootstrap, given a loadable command-authentication key, starts  *)
(* a plaintext listener bound to localhost:8080.                           *)
(***************************************************************************)
EmptyEnv == \A name \in EnvNames : ~env[name].ok

PastWarning == pc \notin {"NewConfig", "Parse", "ReadEnv", "PostResolve"}

ResolvedWithoutError == Resolved /\ ~BadEnv("port") /\ ~BadEnv("timeout")

WarningWhenResolved ==
    PastWarning =>
        (Printed(nonLocalhostWarning)
            <=> (ResolvedWithoutError /\ httpConfig.host # "localhost"))

WarningNotFatal ==
    pc = "PostResolve" =>
        /\ pc' = "PrivateKey"
        /\ UNCHANGED <<httpConfig, err, exitCode, useTLS, proxy, listener, calls>>

StepRank(p) ==
    CASE p = "NewConfig" -> 0 [] p = "Parse" -> 1 [] p = "ReadEnv" -> 2
      [] p = "PostResolve" -> 3 [] p = "PrivateKey" -> 4 [] p = "DisableTLS" -> 5
      [] p = "SafetyGate" -> 6 [] p = "ProxyNew" -> 7 [] p = "Listen" -> 8
      [] p = "Serving" -> 9 [] p = "Return" -> 10 [] p = "Exited" -> 11

CallRank(c) ==
    CASE c = "cli.NewConfig" -> 0 [] c = "flag.Parse" -> 1
      [] c = "readFromEnvironment" -> 2 [] c = "config.PrivateKey" -> 3
      [] c = "protocol.LoadPublicKey" -> 4 [] c = "proxy.New" -> 5
      [] c = "http.ListenAndServe" -> 6 [] c = "http.ListenAndServeTLS" -> 6

CallsInOrder ==
    \A i, j \in 1..Len(calls) : i < j => CallRank(calls[i]) < CallRank(calls[j])

ListenerAfterGate ==
    ListenerCalls > 0 =>
        /\ ListenerCalls = 1
        /\ ResolvedWithoutError
        /\ Called("config.PrivateKey")
        /\ Called("proxy.New")
        /\ IF useTLS
           THEN Called("protocol.LoadPublicKey") /\ ~CredentialReuse
           ELSE ~Called("protocol.LoadPublicKey")

C14_BootstrapOrder ==
    [](CallsInOrder /\ ListenerAfterGate) /\ [][StepRank(pc') > StepRank(pc)]_vars

C14_Witness ==
    /\ pc = "Exited"
    /\ Len(calls) = 7
    /\ Called("http.ListenAndServeTLS")

(***************************************************************************)
(* C15.  The key comparison is made only when encrypted transport is       *)
(* requested and a TLS key-file path is present: when the transport-       *)
(* disable variable disables TLS, or the resolved key path is empty, main  *)
(* never aborts for credential reuse and goes on to start a listener, even *)
(* if a key file identical to the command-authentication key exists.       *)
(***************************************************************************)
TLSDisabled == env[EnvDisableTLS] = Present("true")

PastGate == skey # 0 /\ StepRank(pc) > StepRank("SafetyGate")

ResolverCalls ==
    Cardinality({i \in 1..Len(calls) : calls[i] = "readFromEnvironment"})

RecordAsResolved ==
    /\ ResolverCalls <= 1
    /\ ~Resolved => httpConfig \in {FlagDefaults, AfterFlags}
    /\ Resolved => httpConfig = resolved
    /\ listener # NoListener =>
        /\ listener.addr = resolved.host \o ":" \o ToString(resolved.port)
        /\ listener.handler.Timeout = resolved.timeout
        /\ listener.fn = "http.ListenAndServeTLS" =>
            /\ listener.certFile = resolved.certFilename
            /\ listener.keyFile = resolved.keyFilename

RecordWrittenOnlyByResolution ==
    httpConfig' # httpConfig => pc \in {"Parse", "ReadEnv"} /\ ~Resolved

C16_RecordReadOnly == []RecordAsResolved /\ [][RecordWrittenOnlyByResolution]_vars

C16_Witness ==
    /\ pc = "Exited"
    /\ listener.fn = "http.ListenAndServeTLS"
    /\ resolved # FlagDefaults
    /\ resolved.port = defaultPort
    /\ logLevel = "debug"
    /\ Printed(nonLocalhostWarning)

(***************************************************************************)
(* C18.  A failed resolution is not atomic.  On the port error the         *)
(* certificate path, key path, host and verbosity already hold the values  *)
(* taken from the environment, the port holds the result of the failed     *)
(* parse and is no longer at its default, and the timeout is unchanged     *)
(* (its variable was not examined).  On the timeout error every earlier    *)
(* field, port included, holds its environment value and the timeout holds *)
(* the result of the failed parse.                                         *)
(***************************************************************************)
\* the value the resolver gives a field it has examined
ValueFromEnv(fld) ==
    IF AfterFlags[fld] = FlagDefaults[fld] /\ EnvIsSet(fld)
    THEN EnvValue(fld) ELSE AfterFlags[fld]

C18_FailureNotAtomic ==
    Resolved =>
        /\ err = EnvError("port") =>
            /\ BadEnv("port")
            /\ \A fld \in {"certFilename", "keyFilename", "host", "verbose"} :
                    httpConfig[fld] = ValueFromEnv(fld)
            /\ httpConfig.port = 0
            /\ httpConfig.port # defaultPort
            /\ httpConfig.timeout = AfterFlags.timeout
        /\ err = EnvError("timeout") =>
            /\ BadEnv("timeout")
            /\ \A fld \in {"certFilename", "keyFilename", "host", "verbose", "port"} :
                    httpConfig[fld] = ValueFromEnv(fld)
            /\ httpConfig.timeout = 0
            /\ httpConfig.timeout # DefaultTimeout
        /\ BadEnv("port") => err = EnvError("port")
        /\ (~BadEnv("port") /\ BadEnv("timeout")) => err = EnvError("timeout")

C18_Witness ==
    /\ Resolved
    /\ err = EnvError("port")
    /\ httpConfig.certFilename = "env.crt"
    /\ httpConfig.keyFilename = "env.key"
    /\ httpConfig.host = "0.0.0.0"
    /\ httpConfig.verbose
    /\ env[EnvTimeout] = Present(<<"5", "s">>)
    /\ httpConfig.timeout = DefaultTimeout

====
